---- MODULE Spec2Model ----
(***************************************************************************)
(* A model of Inspectable.h: the transformation slot                       *)
(* (InspectableTransformation<T>), the value cell (Inspectable<T>) and the *)
(* host that owns slots and listener closures and calls the cell.          *)
(* T is int.  Every operation is synchronous, so each one is one action.   *)
(***************************************************************************)
EXTENDS Integers, Sequences, FiniteSets, TLC

\* ------------------------------------------------------------------------
\* Bounds and input domains
\* ------------------------------------------------------------------------

\* longest m_Transformations the host builds
MaxTransformations == 2

\* most listeners the host keeps registered (m_ValueChanged and
\* m_IdentityChanged together)
MaxListeners == 2

\* the null pointer
NULL == 0

\* the InspectableTransformation objects the host owns (their addresses)
Slots == {1, 2}

\* the m_Transformation member of the host's InspectableScopedTransformation
\* (its address)
WrapperSlot == 3

AllSlots == Slots \cup {WrapperSlot}

\* the host's Inspectable (its address)
Cell == 1

\* the host's scoped objects, one of each class: InspectableScopedTransformation,
\* InspectableScopedValueChangedFunc, InspectableScopedIdentityChangedFunc
Wrappers == {"Transformation", "ValueChanged", "IdentityChanged"}

\* the TValueChangedFunc objects the host owns (their addresses)
Funcs == {1, 2}

\* the priorities the host uses
Priorities == {0, 1}

\* the identities the host uses
Identities == {10, 11}

\* a std::function without a target
Unbound == "Unbound"

\* the transformation closures of the host (README.md: val *= 2, val += 2)
TransformFuncs == {"Times2", "Plus2"}

\* a transformation closure that raises an exception instead of returning
Throws == "Throws"

\* the closure the host binds to slot s, when it binds one
FuncOf(s) == IF s = 1 THEN "Times2" ELSE "Plus2"

\* what the host may pass as func to Set for slot s
FuncChoices(s) == {Unbound, FuncOf(s)}

VARIABLES
  m_Function,        \* slot -> its std::function (Unbound or a closure)
  m_Priority,        \* slot -> int
  m_Enabled,         \* slot -> bool
  target,            \* listener object -> whether its std::function has a target
  m_Identity,        \* the cell's identity
  m_LastValue,       \* the cell's cached value
  m_Transformations, \* the cell's slot list (sequence of slot addresses)
  m_IdentityChanged, \* the cell's identity-changed listeners (addresses)
  m_ValueChanged,    \* the cell's value-changed listeners (addresses)
  op,                \* the operation that ran last, with its arguments
  ret,               \* what it returned, or that it raised
  calls,             \* the listener calls it made, in order
  applied,           \* the slots its recompute applied, in order
  updates,           \* how many times it ran ForceUpdate
  dirtyOrder,        \* a registered slot's priority was Set since the last sort
  registered,        \* the registered slots in the order they were registered
  constructed,       \* scoped object -> the constructor that made it, "No" when
                     \* there is none (not yet constructed, or destroyed)
  m_Inspectable,     \* scoped object -> the cell it holds (Cell or NULL)
  m_UpdateOnDestroy, \* the scoped transformation's flag
  before,            \* the cell when the scoped transformation was constructed
  atDisable          \* the cell when an enabled slot was last disabled

slotVars == <<m_Function, m_Priority, m_Enabled>>
cellVars == <<m_Identity, m_LastValue, m_Transformations, m_IdentityChanged,
              m_ValueChanged>>
scopedVars == <<constructed, m_Inspectable, m_UpdateOnDestroy, before, atDisable>>
vars == <<m_Function, m_Priority, m_Enabled, target, m_Identity, m_LastValue,
          m_Transformations, m_IdentityChanged, m_ValueChanged, op, ret, calls,
          applied, updates, dirtyOrder, registered, constructed, m_Inspectable,
          m_UpdateOnDestroy, before, atDisable>>

\* ------------------------------------------------------------------------
\* Sequences
\* ------------------------------------------------------------------------

Range(s) == {s[i] : i \in 1..Len(s)}

Count(x, s) == Cardinality({i \in 1..Len(s) : s[i] = x})

\* std::find: the first index holding x, or 0 (end())
Find(s, x) ==
  IF x \in Range(s) THEN CHOOSE i \in 1..Len(s) : s[i] = x /\ \A j \in 1..(i - 1) : s[j] # x
  ELSE 0

\* an erase that takes nothing away
EraseNone(s, i) == s

\* vector::erase of the element at index i
Erase(s, i) == [j \in 1..(Len(s) - 1) |-> IF j < i THEN s[j] ELSE s[j + 1]]

\* ------------------------------------------------------------------------
\* The operation record
\* ------------------------------------------------------------------------

\* name, the slot or listener argument, the value argument, the update flag
Op(name, t, value, andUpdate) ==
  [name |-> name, t |-> t, value |-> value, andUpdate |-> andUpdate]

Returned(v) == [raised |-> FALSE, value |-> v]
Raised == [raised |-> TRUE, value |-> 0]
Void == Returned(0)

\* the call is ill-formed: a program that makes it has no build
NoBuild == [raised |-> FALSE, value |-> 0, built |-> FALSE]

\* ------------------------------------------------------------------------
\* InspectableTransformation<T>
\* ------------------------------------------------------------------------

\* invoking a closure that has a target on the value v
Invoke(func, v) ==
  CASE func = "Times2" -> v * 2
    [] func = "Plus2"  -> v + 2
    [] OTHER           -> v

\* the cached value stays as it is and no listener is called
NoUpdate ==
  /\ m_LastValue' = m_LastValue
  /\ applied' = <<>>
  /\ updates' = 0
  /\ calls' = <<>>

\* InspectableTransformation::Set(func, priority, enabled) on slot s
Set(s, func, priority, enabled) ==
  /\ m_Function' = [m_Function EXCEPT ![s] = func]
  /\ m_Priority' = [m_Priority EXCEPT ![s] = priority]
  /\ m_Enabled' = [m_Enabled EXCEPT ![s] = enabled]
  /\ dirtyOrder' = (dirtyOrder \/ (s \in Range(m_Transformations) /\ priority # m_Priority[s]))
  /\ op' = Op("Set", s, 0, FALSE)
  /\ ret' = Void
  /\ NoUpdate
  /\ UNCHANGED <<target, scopedVars, m_Identity, m_Transformations, m_IdentityChanged, m_ValueChanged,
                 registered>>

\* InspectableTransformation::Enable() on slot s
Enable(s) ==
  /\ m_Enabled' = [m_Enabled EXCEPT ![s] = TRUE]
  /\ op' = Op("Enable", s, 0, FALSE)
  /\ ret' = Void
  /\ NoUpdate
  /\ UNCHANGED <<m_Function, m_Priority, target, scopedVars, m_Identity, m_Transformations,
                 m_IdentityChanged, m_ValueChanged, dirtyOrder, registered>>

\* no slot was disabled yet
NoDisable == [s |-> NULL, value |-> 0, fresh |-> FALSE]

RECURSIVE Transformed(_, _, _, _)
\* when Disable or Disable(andUpdate) turns off the enabled slot s: the cached
\* value just before, and whether a recompute would have left it as it is
AtDisable(s) ==
  IF m_Enabled[s]
  THEN [s |-> s,
        value |-> m_LastValue,
        fresh |-> (m_LastValue = Transformed(m_Transformations, m_Function,
                                             m_Enabled, m_Identity))]
  ELSE atDisable

\* m_Enabled = false on slot s
Disabled(s) ==
  /\ m_Enabled' = [m_Enabled EXCEPT ![s] = FALSE]
  /\ op' = Op("Disable", s, 0, FALSE)
  /\ ret' = Void
  /\ NoUpdate
  /\ UNCHANGED <<m_Function, m_Priority, target, constructed, m_Inspectable,
                 m_UpdateOnDestroy, before, m_Identity, m_Transformations,
                 m_IdentityChanged, m_ValueChanged, dirtyOrder, registered>>

\* InspectableTransformation::Disable() on slot s
Disable(s) == Disabled(s) /\ UNCHANGED atDisable

\* InspectableTransformation::Disable() on slot s, with the cell noted as it
\* was just before
DisableNoted(s) == Disabled(s) /\ atDisable' = AtDisable(s)

\* m_Function(input): std::function::operator() throws std::bad_function_call
\* when it has no target, and otherwise runs the closure on input
CallFunction(func, input) ==
  IF func = Unbound THEN Raised ELSE Returned(Invoke(func, input))

\* InspectableTransformation::operator()(input) on slot s, called by the host
OperatorCall(s, input) ==
  /\ ret' = CallFunction(m_Function[s], input)
  /\ op' = Op("OperatorCall", s, input, FALSE)
  /\ NoUpdate
  /\ UNCHANGED <<slotVars, target, scopedVars, m_Identity, m_Transformations, m_IdentityChanged,
                 m_ValueChanged, dirtyOrder, registered>>

\* ------------------------------------------------------------------------
\* Inspectable<T>: the recompute
\* ------------------------------------------------------------------------

\* xoins::internal::TransformationPredicate on the two priorities
TransformationPredicate(pa, pb) == pa > pb

\* std::sort(begin, end, TransformationPredicate): a permutation of list that
\* the predicate orders; the order of elements the predicate does not tell
\* apart is unspecified (std::sort is not std::stable_sort), so every such
\* arrangement is an outcome
SortTransformations(list, priority) ==
  LET n == Len(list)
      arranged == {[i \in 1..n |-> list[pi[i]]] : pi \in Permutations(1..n)}
  IN {p \in arranged :
        \A i, j \in 1..n :
          i < j => ~TransformationPredicate(priority[p[j]], priority[p[i]])}

\* transform->IsEnabled() && (*transform).GetTransformFunc()
\* the test of IsEnabled() left out
AppliesWhenBound(s, func, enabled) == func[s] # Unbound

\* transform->IsEnabled() && (*transform).GetTransformFunc()
Applies(s, func, enabled) == enabled[s] /\ func[s] # Unbound

\* the loop of ForceUpdate over list, starting from value
Transformed(list, func, enabled, value) ==
  IF list = <<>> THEN value
  ELSE Transformed(Tail(list), func, enabled,
                   IF Applies(Head(list), func, enabled)
                   THEN Invoke(func[Head(list)], value)
                   ELSE value)

\* the slots that loop calls, in the order it calls them
AppliedSlots(list, func, enabled) ==
  SelectSeq(list, LAMBDA s : Applies(s, func, enabled))

\* the exception of a closure is swallowed: the walk always completes
WalkCompletes(list, func, enabled) == FALSE

\* (*transform)(value) raises for some slot of the loop: the exception leaves
\* ForceUpdate at that call
WalkThrows(list, func, enabled) ==
  \E i \in 1..Len(list) : Applies(list[i], func, enabled) /\ func[list[i]] = Throws

\* the slots the loop calls up to the one that raises, that one included
AppliedUntilThrow(list, func, enabled) ==
  LET called == AppliedSlots(list, func, enabled)
      first == CHOOSE i \in 1..Len(called) :
                 /\ func[called[i]] = Throws
                 /\ \A j \in 1..(i - 1) : func[called[j]] # Throws
  IN SubSeq(called, 1, first)

\* (*func)(...) on a listener whose std::function has lost its target throws
\* std::bad_function_call: some entry of the list is such a listener
BadCall(listeners) == \E i \in 1..Len(listeners) : ~target[listeners[i]]

\* the entries a loop over listeners calls and returns from: those before
\* the first one without a target
Callable(listeners) ==
  IF BadCall(listeners)
  THEN SubSeq(listeners, 1,
              (CHOOSE i \in 1..Len(listeners) :
                 /\ ~target[listeners[i]]
                 /\ \A j \in 1..(i - 1) : target[listeners[j]]) - 1)
  ELSE listeners

\* the comparison of ForceUpdate left out: every recompute notifies
ValueDiffersAlways(lastValue, value) == TRUE

\* if(lastValue != value)
ValueDiffers(lastValue, value) == lastValue # value

\* the listeners called from the last registered to the first
NotifyReversed(kind, listeners, lastValue, value) ==
  [i \in 1..Len(listeners) |->
     [kind |-> kind, f |-> listeners[Len(listeners) + 1 - i], last |-> lastValue,
      new |-> value]]

\* for(auto func : listeners) (*func)(this, lastValue, value)
Notify(kind, listeners, lastValue, value) ==
  [i \in 1..Len(listeners) |->
     [kind |-> kind, f |-> listeners[i], last |-> lastValue, new |-> value]]

\* the value-changed calls of ForceUpdate that return
NotifyValueChanged(lastValue, value) ==
  IF ValueDiffers(lastValue, value)
  THEN Notify("value", Callable(m_ValueChanged), lastValue, value)
  ELSE <<>>

\* the value-changed loop of ForceUpdate ends in std::bad_function_call
NotifyThrows(lastValue, value) ==
  ValueDiffers(lastValue, value) /\ BadCall(m_ValueChanged)

\* ForceUpdate run after the calling operation's own listener calls
UpdateLast(identity, list, func, enabled, after, result) ==
  LET value == Transformed(list, func, enabled, identity)
      lastValue == m_LastValue
      notified == NotifyValueChanged(lastValue, value)
  IN /\ m_LastValue' = value
     /\ applied' = AppliedSlots(list, func, enabled)
     /\ updates' = 1
     /\ calls' = after \o notified
     /\ ret' = result

\* the body of ForceUpdate on the given identity, slot list and slot fields.
\* after is what the calling operation calls once ForceUpdate has returned
\* and result what the operation then returns; an exception out of a
\* transformation leaves before m_LastValue = value, one out of a listener
\* after it, and both end the calling operation
Update(identity, list, func, enabled, after, result) ==
  LET value == Transformed(list, func, enabled, identity)
      lastValue == m_LastValue
      notified == NotifyValueChanged(lastValue, value)
  IN IF WalkThrows(list, func, enabled)
     THEN /\ m_LastValue' = m_LastValue
          /\ applied' = AppliedUntilThrow(list, func, enabled)
          /\ updates' = 1
          /\ calls' = <<>>
          /\ ret' = Raised
     ELSE /\ m_LastValue' = value
          /\ applied' = AppliedSlots(list, func, enabled)
          /\ updates' = 1
          /\ IF NotifyThrows(lastValue, value)
             THEN calls' = notified /\ ret' = Raised
             ELSE calls' = notified \o after /\ ret' = result

\* if(andUpdate) ForceUpdate();
UpdateIf(andUpdate, list, func, enabled) ==
  IF andUpdate
  THEN Update(m_Identity, list, func, enabled, <<>>, Void)
  ELSE NoUpdate /\ ret' = Void

\* a recompute that starts from the cached value instead of the identity
ForceUpdateFromCache ==
  /\ Update(m_LastValue, m_Transformations, m_Function, m_Enabled, <<>>, Void)
  /\ op' = Op("ForceUpdate", NULL, 0, TRUE)
  /\ UNCHANGED <<slotVars, target, scopedVars, m_Identity, m_Transformations, m_IdentityChanged,
                 m_ValueChanged, dirtyOrder, registered>>

\* Inspectable::ForceUpdate()
ForceUpdate ==
  /\ Update(m_Identity, m_Transformations, m_Function, m_Enabled, <<>>, Void)
  /\ op' = Op("ForceUpdate", NULL, 0, TRUE)
  /\ UNCHANGED <<slotVars, target, scopedVars, m_Identity, m_Transformations, m_IdentityChanged,
                 m_ValueChanged, dirtyOrder, registered>>

\* Inspectable::GetValue(andForceUpdate)
GetValue(andForceUpdate) ==
  /\ IF andForceUpdate
     THEN Update(m_Identity, m_Transformations, m_Function, m_Enabled, <<>>,
                 Returned(Transformed(m_Transformations, m_Function, m_Enabled,
                                      m_Identity)))
     ELSE NoUpdate /\ ret' = Returned(m_LastValue)
  /\ op' = Op("GetValue", NULL, 0, andForceUpdate)
  /\ UNCHANGED <<slotVars, target, scopedVars, m_Identity, m_Transformations, m_IdentityChanged,
                 m_ValueChanged, dirtyOrder, registered>>

\* the comparison of SetIdentity left out: every call is taken as a change
IdentityDiffersAlways(identity, value) == TRUE

\* if(m_Identity != value)
IdentityDiffers(identity, value) == identity # value

\* Inspectable::SetIdentity(value, andUpdate)
SetIdentity(value, andUpdate) ==
  /\ IF IdentityDiffers(m_Identity, value)
     THEN LET last == m_Identity
              identityCalls == Notify("identity", Callable(m_IdentityChanged), last, value)
              result == IF BadCall(m_IdentityChanged) THEN Raised ELSE Void
          IN /\ m_Identity' = value
             /\ IF andUpdate
                THEN Update(value, m_Transformations, m_Function, m_Enabled,
                            identityCalls, result)
                ELSE /\ m_LastValue' = m_LastValue
                     /\ applied' = <<>>
                     /\ updates' = 0
                     /\ calls' = identityCalls
                     /\ ret' = result
     ELSE /\ m_Identity' = m_Identity
          /\ NoUpdate
          /\ ret' = Void
  /\ op' = Op("SetIdentity", NULL, value, andUpdate)
  /\ UNCHANGED <<slotVars, target, scopedVars, m_Transformations, m_IdentityChanged, m_ValueChanged,
                 dirtyOrder, registered>>

\* ------------------------------------------------------------------------
\* Inspectable<T>: listeners that call back into the cell
\* ------------------------------------------------------------------------

\* what the closure of listener f does with the cell it is called with:
\* closure 1 calls SetIdentity(ReenterIdentity, true), closure 2 calls
\* ForceUpdate()
ReactionOf(f) == IF f = 1 THEN "SetIdentity" ELSE "ForceUpdate"

\* the identity closure 1 sets
ReenterIdentity == 11

\* c is the cell (m_Identity, m_LastValue) while an operation runs, tr the
\* listener calls made so far, each with the cached value the listener finds
\* when it is called (GetValue(false)), n the number of ForceUpdate calls
Running(c, tr, n) == [c |-> c, tr |-> tr, n |-> n]

RECURSIVE ForceUpdateIn(_, _, _)
RECURSIVE SetIdentityIn(_, _, _, _, _)
RECURSIVE Round(_, _, _, _, _, _, _)

\* the closure of f runs
Called(f, c, tr, n) ==
  IF ReactionOf(f) = "SetIdentity"
  THEN SetIdentityIn(ReenterIdentity, TRUE, c, tr, n)
  ELSE ForceUpdateIn(c, tr, n)

\* for(auto func : listeners) (*func)(this, last, new): the value round
\* passes the locals lastValue and value, the identity round the local last
\* and the member m_Identity by reference
Round(kind, listeners, last, new, c, tr, n) ==
  IF listeners = <<>> THEN Running(c, tr, n)
  ELSE LET f == Head(listeners)
           call == [kind |-> kind, f |-> f, last |-> last,
                    new |-> IF kind = "identity" THEN c.identity ELSE new,
                    cached |-> c.lastValue]
           r == Called(f, c, Append(tr, call), n)
       IN Round(kind, Tail(listeners), last, new, r.c, r.tr, r.n)

\* ForceUpdate() on the running cell
ForceUpdateIn(c, tr, n) ==
  LET value == Transformed(m_Transformations, m_Function, m_Enabled, c.identity)
      lastValue == c.lastValue
      assigned == [c EXCEPT !.lastValue = value]
  IN IF ValueDiffers(lastValue, value)
     THEN Round("value", m_ValueChanged, lastValue, value, assigned, tr, n + 1)
     ELSE Running(assigned, tr, n + 1)

\* SetIdentity(value, andUpdate) on the running cell
SetIdentityIn(value, andUpdate, c, tr, n) ==
  IF IdentityDiffers(c.identity, value)
  THEN LET last == c.identity
           assigned == [c EXCEPT !.identity = value]
           r == IF andUpdate THEN ForceUpdateIn(assigned, tr, n)
                ELSE Running(assigned, tr, n)
       IN Round("identity", m_IdentityChanged, last, value, r.c, r.tr, r.n)
  ELSE Running(c, tr, n)

\* the cell as an operation of the host finds it
Entered == [identity |-> m_Identity, lastValue |-> m_LastValue]

\* what an operation leaves behind that ran as r
Left(r) ==
  /\ m_Identity' = r.c.identity
  /\ m_LastValue' = r.c.lastValue
  /\ calls' = r.tr
  /\ updates' = r.n
  /\ applied' = IF r.n > 0
                THEN AppliedSlots(m_Transformations, m_Function, m_Enabled)
                ELSE <<>>
  /\ ret' = Void
  /\ UNCHANGED <<slotVars, target, scopedVars, m_Transformations, m_IdentityChanged,
                 m_ValueChanged, dirtyOrder, registered>>

\* Inspectable::ForceUpdate() with listeners that call back
ForceUpdateReentrant ==
  /\ Left(ForceUpdateIn(Entered, <<>>, 0))
  /\ op' = Op("ForceUpdate", NULL, 0, TRUE)

\* Inspectable::SetIdentity(value, andUpdate) with listeners that call back
SetIdentityReentrant(value, andUpdate) ==
  /\ Left(SetIdentityIn(value, andUpdate, Entered, <<>>, 0))
  /\ op' = Op("SetIdentity", NULL, value, andUpdate)

\* ------------------------------------------------------------------------
\* Inspectable<T>: the slot list
\* ------------------------------------------------------------------------

\* std::find(m_Transformations.begin(), m_Transformations.end(), t) != end()
ContainsTransformation(t) == t # NULL /\ Find(m_Transformations, t) # 0

\* m_Transformations.push_back(t); SortTransformations(); if(andUpdate)
\* ForceUpdate(); with the slot fields as they stand when it runs.  The host
\* registers its own slots MaxTransformations times at most; the scoped
\* transformation's slot comes on top of them
Register(t, andUpdate, func, priority, enabled) ==
  /\ Len(m_Transformations) <
       MaxTransformations + Count(WrapperSlot, Append(m_Transformations, t))
  /\ \E sorted \in SortTransformations(Append(m_Transformations, t), priority) :
       /\ m_Transformations' = sorted
       /\ UpdateIf(andUpdate, sorted, func, enabled)
  /\ dirtyOrder' = FALSE
  /\ registered' = Append(registered, t)

\* a recompute run although nothing was added or removed
DroppedAndUpdated ==
  /\ Update(m_Identity, m_Transformations, m_Function, m_Enabled, <<>>, Void)
  /\ UNCHANGED <<m_Transformations, dirtyOrder, registered>>

\* nothing of the cell changes
Dropped ==
  /\ NoUpdate
  /\ ret' = Void
  /\ UNCHANGED <<m_Transformations, dirtyOrder, registered>>

\* Inspectable::AddTransformation(transformation, andUpdate)
AddTransformation(t, andUpdate) ==
  /\ IF t = NULL
     THEN Dropped
     ELSE Register(t, andUpdate, m_Function, m_Priority, m_Enabled)
  /\ op' = Op("AddTransformation", t, 0, andUpdate)
  /\ UNCHANGED <<slotVars, target, scopedVars, m_Identity, m_IdentityChanged, m_ValueChanged>>

\* Inspectable::AddTransformation(outTransformation, func, priority, enabled,
\* andUpdate): outTransformation.Set(...), then AddTransformation(&out, andUpdate)
AddTransformationSet(s, func, priority, enabled, andUpdate) ==
  /\ m_Function' = [m_Function EXCEPT ![s] = func]
  /\ m_Priority' = [m_Priority EXCEPT ![s] = priority]
  /\ m_Enabled' = [m_Enabled EXCEPT ![s] = enabled]
  /\ Register(s, andUpdate, m_Function', m_Priority', m_Enabled')
  /\ op' = Op("AddTransformationSet", s, 0, andUpdate)
  /\ UNCHANGED <<target, scopedVars, m_Identity, m_IdentityChanged, m_ValueChanged>>

\* the search of AddTransformationUnique never finding the slot
NotFoundAlways(list, t) == TRUE

\* found == m_Transformations.end() in AddTransformationUnique
NotFound(list, t) == Find(list, t) = 0

\* Inspectable::AddTransformationUnique(transformation, andUpdate)
AddTransformationUnique(t, andUpdate) ==
  /\ IF t # NULL /\ NotFound(m_Transformations, t)
     THEN Register(t, andUpdate, m_Function, m_Priority, m_Enabled)
     ELSE Dropped
  /\ op' = Op("AddTransformationUnique", t, 0, andUpdate)
  /\ UNCHANGED <<slotVars, target, scopedVars, m_Identity, m_IdentityChanged, m_ValueChanged>>

\* Inspectable::RemoveTransformation(transformation, andUpdate)
RemoveTransformation(t, andUpdate) ==
  /\ IF t # NULL /\ Find(m_Transformations, t) # 0
     THEN LET erased == Erase(m_Transformations, Find(m_Transformations, t))
          IN /\ m_Transformations' = erased
             /\ UpdateIf(andUpdate, erased, m_Function, m_Enabled)
             /\ registered' = Erase(registered, Find(registered, t))
             /\ UNCHANGED dirtyOrder
     ELSE Dropped
  /\ op' = Op("RemoveTransformation", t, 0, andUpdate)
  /\ UNCHANGED <<slotVars, target, scopedVars, m_Identity, m_IdentityChanged, m_ValueChanged>>

\* ------------------------------------------------------------------------
\* Inspectable<T>: the listener lists
\* ------------------------------------------------------------------------

\* the test of the target left out: f alone
NotNull(f) == f # NULL

\* f && *f
Targeted(f) == f # NULL /\ target[f]

\* an add that leaves out a listener the list already holds
AddListenerOnce(listeners, f) ==
  IF Targeted(f) /\ f \notin Range(listeners) THEN Append(listeners, f) ELSE listeners

\* Add...Changed(f) on the listener list
AddListener(listeners, f) ==
  IF Targeted(f) THEN Append(listeners, f) ELSE listeners

\* Add...ChangedUnique(f) on the listener list
AddListenerUnique(listeners, f) ==
  IF Targeted(f) /\ Find(listeners, f) = 0 THEN Append(listeners, f) ELSE listeners

\* a remove that takes nothing away
RemoveListenerNone(listeners, f) == listeners

\* Remove...Changed(f) on the listener list
RemoveListener(listeners, f) ==
  IF Targeted(f) /\ Find(listeners, f) # 0
  THEN Erase(listeners, Find(listeners, f))
  ELSE listeners

\* Contains...Changed(f) on the listener list
ContainsListener(listeners, f) == Targeted(f) /\ Find(listeners, f) # 0

\* what a listener operation leaves alone
ListenerFrame ==
  /\ NoUpdate
  /\ ret' = Void
  /\ UNCHANGED <<slotVars, target, scopedVars, m_Identity, m_Transformations, dirtyOrder, registered>>

\* Inspectable::AddOnIdentityChanged(f)
AddOnIdentityChanged(f) ==
  /\ m_IdentityChanged' = AddListener(m_IdentityChanged, f)
  /\ Len(m_IdentityChanged') + Len(m_ValueChanged) <= MaxListeners
  /\ op' = Op("AddOnIdentityChanged", f, 0, FALSE)
  /\ ListenerFrame
  /\ UNCHANGED m_ValueChanged

\* Inspectable::AddOnIdentityChangedUnique(f)
AddOnIdentityChangedUnique(f) ==
  /\ m_IdentityChanged' = AddListenerUnique(m_IdentityChanged, f)
  /\ Len(m_IdentityChanged') + Len(m_ValueChanged) <= MaxListeners
  /\ op' = Op("AddOnIdentityChangedUnique", f, 0, FALSE)
  /\ ListenerFrame
  /\ UNCHANGED m_ValueChanged

\* Inspectable::RemoveOnIdentityChanged(f)
RemoveOnIdentityChanged(f) ==
  /\ m_IdentityChanged' = RemoveListener(m_IdentityChanged, f)
  /\ op' = Op("RemoveOnIdentityChanged", f, 0, FALSE)
  /\ ListenerFrame
  /\ UNCHANGED m_ValueChanged

\* Inspectable::AddOnValueChanged(f)
AddOnValueChanged(f) ==
  /\ m_ValueChanged' = AddListener(m_ValueChanged, f)
  /\ Len(m_IdentityChanged) + Len(m_ValueChanged') <= MaxListeners
  /\ op' = Op("AddOnValueChanged", f, 0, FALSE)
  /\ ListenerFrame
  /\ UNCHANGED m_IdentityChanged

\* Inspectable::AddOnValueChangedUnique(f)
AddOnValueChangedUnique(f) ==
  /\ m_ValueChanged' = AddListenerUnique(m_ValueChanged, f)
  /\ Len(m_IdentityChanged) + Len(m_ValueChanged') <= MaxListeners
  /\ op' = Op("AddOnValueChangedUnique", f, 0, FALSE)
  /\ ListenerFrame
  /\ UNCHANGED m_IdentityChanged

\* Inspectable::RemoveOnValueChanged(f)
RemoveOnValueChanged(f) ==
  /\ m_ValueChanged' = RemoveListener(m_ValueChanged, f)
  /\ op' = Op("RemoveOnValueChanged", f, 0, FALSE)
  /\ ListenerFrame
  /\ UNCHANGED m_IdentityChanged

\* what Contains...Changed returns: true as 1, false as 0
Truth(b) == IF b THEN 1 ELSE 0

\* Inspectable::ContainsOnIdentityChanged(f)
ContainsOnIdentityChanged(f) ==
  /\ ret' = Returned(Truth(ContainsListener(m_IdentityChanged, f)))
  /\ op' = Op("ContainsOnIdentityChanged", f, 0, FALSE)
  /\ NoUpdate
  /\ UNCHANGED <<slotVars, target, scopedVars, m_Identity, m_Transformations,
                 m_IdentityChanged, m_ValueChanged, dirtyOrder, registered>>

\* Inspectable::ContainsOnValueChanged(f)
ContainsOnValueChanged(f) ==
  /\ ret' = Returned(Truth(ContainsListener(m_ValueChanged, f)))
  /\ op' = Op("ContainsOnValueChanged", f, 0, FALSE)
  /\ NoUpdate
  /\ UNCHANGED <<slotVars, target, scopedVars, m_Identity, m_Transformations,
                 m_IdentityChanged, m_ValueChanged, dirtyOrder, registered>>

\* the host assigns to its TValueChangedFunc object f, a closure (bound) or
\* nullptr; the cell is not told
Assign(f, bound) ==
  /\ target' = [target EXCEPT ![f] = bound]
  /\ op' = Op("Assign", f, 0, FALSE)
  /\ ret' = Void
  /\ NoUpdate
  /\ UNCHANGED <<slotVars, scopedVars, m_Identity, m_Transformations,
                 m_IdentityChanged, m_ValueChanged, dirtyOrder, registered>>

\* ------------------------------------------------------------------------
\* InspectableScopedTransformation<T>
\* ------------------------------------------------------------------------

\* nothing recorded
NoSnapshot == [value |-> 0, fresh |-> FALSE, sorted |-> FALSE, andUpdate |-> FALSE]

\* the cached value just before a scoped transformation is constructed with
\* andUpdate, whether a recompute would have left it as it is, and whether
\* the slot list was in strictly descending priority order
Snapshot(andUpdate) ==
  [value |-> m_LastValue,
   fresh |-> (m_LastValue = Transformed(m_Transformations, m_Function, m_Enabled,
                                        m_Identity)),
   sorted |-> (\A i \in 1..Len(m_Transformations) - 1 :
                 m_Priority[m_Transformations[i]]
                   > m_Priority[m_Transformations[i + 1]]),
   andUpdate |-> andUpdate]

\* InspectableScopedTransformation(inspectable, updateOnDestroy):
\* m_Transformation is default constructed (no function, m_Priority and
\* m_Enabled not initialised) and the constructor body is empty
ScopedTransformation(inspectable, updateOnDestroy) ==
  /\ constructed["Transformation"] = "No"
  /\ \E priority \in Priorities, enabled \in BOOLEAN :
       /\ m_Function' = [m_Function EXCEPT ![WrapperSlot] = Unbound]
       /\ m_Priority' = [m_Priority EXCEPT ![WrapperSlot] = priority]
       /\ m_Enabled' = [m_Enabled EXCEPT ![WrapperSlot] = enabled]
  /\ constructed' = [constructed EXCEPT !["Transformation"] = "Default"]
  /\ m_Inspectable' = [m_Inspectable EXCEPT !["Transformation"] = inspectable]
  /\ m_UpdateOnDestroy' = updateOnDestroy
  /\ before' = Snapshot(FALSE)
  /\ UNCHANGED atDisable
  /\ op' = Op("ScopedTransformation", WrapperSlot, 0, FALSE)
  /\ ret' = Void
  /\ NoUpdate
  /\ UNCHANGED <<target, m_Identity, m_Transformations, m_IdentityChanged,
                 m_ValueChanged, dirtyOrder, registered>>

\* InspectableScopedTransformation(inspectable, func, priority, enabled,
\* andUpdate, updateOnDestroy): m_Transformation(func, priority, enabled);
\* if(m_Inspectable) { AddTransformation(&m_Transformation); if(andUpdate)
\* ForceUpdate(); }
ScopedTransformationSet(inspectable, func, priority, enabled, andUpdate, updateOnDestroy) ==
  /\ constructed["Transformation"] = "No"
  /\ m_Function' = [m_Function EXCEPT ![WrapperSlot] = func]
  /\ m_Priority' = [m_Priority EXCEPT ![WrapperSlot] = priority]
  /\ m_Enabled' = [m_Enabled EXCEPT ![WrapperSlot] = enabled]
  /\ constructed' = [constructed EXCEPT !["Transformation"] = "Set"]
  /\ m_Inspectable' = [m_Inspectable EXCEPT !["Transformation"] = inspectable]
  /\ m_UpdateOnDestroy' = updateOnDestroy
  /\ before' = Snapshot(andUpdate)
  /\ UNCHANGED atDisable
  /\ IF inspectable # NULL
     THEN Register(WrapperSlot, andUpdate, m_Function', m_Priority', m_Enabled')
     ELSE Dropped
  /\ op' = Op("ScopedTransformationSet", WrapperSlot, 0, andUpdate)
  /\ UNCHANGED <<target, m_Identity, m_IdentityChanged, m_ValueChanged>>

\* ~InspectableScopedTransformation(): if(m_Inspectable) {
\* RemoveTransformation(&m_Transformation); if(m_UpdateOnDestroy)
\* ForceUpdate(); }  The object is gone afterwards
ScopedDestroy ==
  /\ constructed["Transformation"] # "No"
  /\ IF m_Inspectable["Transformation"] # NULL
     THEN LET found == Find(m_Transformations, WrapperSlot)
              erased == IF found # 0 THEN Erase(m_Transformations, found)
                        ELSE m_Transformations
          IN /\ m_Transformations' = erased
             /\ registered' = IF found # 0
                              THEN Erase(registered, Find(registered, WrapperSlot))
                              ELSE registered
             /\ UNCHANGED dirtyOrder
             /\ IF m_UpdateOnDestroy
                THEN Update(m_Identity, erased, m_Function, m_Enabled, <<>>, Void)
                ELSE NoUpdate /\ ret' = Void
     ELSE Dropped
  /\ m_Function' = [m_Function EXCEPT ![WrapperSlot] = Unbound]
  /\ m_Priority' = [m_Priority EXCEPT ![WrapperSlot] = 0]
  /\ m_Enabled' = [m_Enabled EXCEPT ![WrapperSlot] = FALSE]
  /\ constructed' = [constructed EXCEPT !["Transformation"] = "No"]
  /\ m_Inspectable' = [m_Inspectable EXCEPT !["Transformation"] = NULL]
  /\ m_UpdateOnDestroy' = FALSE
  /\ before' = NoSnapshot
  /\ UNCHANGED atDisable
  /\ op' = Op("ScopedDestroy", WrapperSlot, 0, m_UpdateOnDestroy)
  /\ UNCHANGED <<target, m_Identity, m_IdentityChanged, m_ValueChanged>>

\* InspectableScopedTransformation::Set(func, priority, enabled, andUpdate):
\* m_Transformation.Set(func, priority, enabled); if(m_Inspectable &&
\* andUpdate) m_Inspectable->ForceUpdate();
ScopedSet(func, priority, enabled, andUpdate) ==
  /\ constructed["Transformation"] # "No"
  /\ m_Function' = [m_Function EXCEPT ![WrapperSlot] = func]
  /\ m_Priority' = [m_Priority EXCEPT ![WrapperSlot] = priority]
  /\ m_Enabled' = [m_Enabled EXCEPT ![WrapperSlot] = enabled]
  /\ dirtyOrder' = (dirtyOrder \/ (WrapperSlot \in Range(m_Transformations)
                                    /\ priority # m_Priority[WrapperSlot]))
  /\ IF m_Inspectable["Transformation"] # NULL /\ andUpdate
     THEN Update(m_Identity, m_Transformations, m_Function', m_Enabled', <<>>, Void)
     ELSE NoUpdate /\ ret' = Void
  /\ op' = Op("ScopedSet", WrapperSlot, 0, andUpdate)
  /\ UNCHANGED <<target, m_Identity, m_Transformations, m_IdentityChanged,
                 m_ValueChanged, registered, constructed, m_Inspectable,
                 m_UpdateOnDestroy, before, atDisable>>

\* InspectableScopedTransformation::Enable(andUpdate): m_Transformation.Enable();
\* if(m_Inspectable && andUpdate) m_Inspectable->ForceUpdate();
ScopedEnable(andUpdate) ==
  /\ constructed["Transformation"] # "No"
  /\ m_Enabled' = [m_Enabled EXCEPT ![WrapperSlot] = TRUE]
  /\ IF m_Inspectable["Transformation"] # NULL /\ andUpdate
     THEN Update(m_Identity, m_Transformations, m_Function, m_Enabled', <<>>, Void)
     ELSE NoUpdate /\ ret' = Void
  /\ op' = Op("ScopedEnable", WrapperSlot, 0, andUpdate)
  /\ UNCHANGED <<m_Function, m_Priority, target, scopedVars, m_Identity,
                 m_Transformations, m_IdentityChanged, m_ValueChanged, dirtyOrder,
                 registered>>

\* InspectableScopedTransformation::Disable(andUpdate):
\* m_Transformation.Disable(); if(m_Inspectable && andUpdate)
\* m_Inspectable->ForceUpdate();
ScopedDisable(andUpdate) ==
  /\ constructed["Transformation"] # "No"
  /\ m_Enabled' = [m_Enabled EXCEPT ![WrapperSlot] = FALSE]
  /\ atDisable' = AtDisable(WrapperSlot)
  /\ IF m_Inspectable["Transformation"] # NULL /\ andUpdate
     THEN Update(m_Identity, m_Transformations, m_Function, m_Enabled', <<>>, Void)
     ELSE NoUpdate /\ ret' = Void
  /\ op' = Op("ScopedDisable", WrapperSlot, 0, andUpdate)
  /\ UNCHANGED <<m_Function, m_Priority, target, constructed, m_Inspectable,
                 m_UpdateOnDestroy, before, m_Identity, m_Transformations,
                 m_IdentityChanged, m_ValueChanged, dirtyOrder, registered>>

\* ------------------------------------------------------------------------
\* InspectableScopedValueChangedFunc<T>, InspectableScopedIdentityChangedFunc<T>
\* ------------------------------------------------------------------------

\* the two scoped listeners
ListenerWrappers == {"ValueChanged", "IdentityChanged"}

\* &m_OnValueChanged: the address of the closure a scoped listener holds
ClosureOf(w) == IF w = "ValueChanged" THEN 3 ELSE 4

\* the closures of the host and of the scoped listeners
AllFuncs == Funcs \cup {ClosureOf(w) : w \in ListenerWrappers}

\* what an operation of a scoped listener leaves alone
ScopedListenerFrame ==
  /\ NoUpdate
  /\ ret' = Void
  /\ UNCHANGED <<slotVars, m_UpdateOnDestroy, before, atDisable, m_Identity, m_Transformations,
                 dirtyOrder, registered>>

\* InspectableScoped...ChangedFunc(): no cell, an empty closure
ScopedChangedFunc(w) ==
  /\ constructed[w] = "No"
  /\ constructed' = [constructed EXCEPT ![w] = "Default"]
  /\ m_Inspectable' = [m_Inspectable EXCEPT ![w] = NULL]
  /\ target' = [target EXCEPT ![ClosureOf(w)] = FALSE]
  /\ op' = Op("ScopedChangedFunc", ClosureOf(w), 0, FALSE)
  /\ ScopedListenerFrame
  /\ UNCHANGED <<m_ValueChanged, m_IdentityChanged>>

\* InspectableScoped...ChangedFunc(inspectable, func), func bound or empty:
\* if(m_Inspectable && m_OnValueChanged)
\*   m_Inspectable->AddOn...Changed(&m_OnValueChanged)
ScopedChangedFuncSet(w, inspectable, func) ==
  /\ constructed[w] = "No"
  /\ constructed' = [constructed EXCEPT ![w] = "Set"]
  /\ m_Inspectable' = [m_Inspectable EXCEPT ![w] = inspectable]
  /\ target' = [target EXCEPT ![ClosureOf(w)] = func]
  /\ LET added(listeners) == IF inspectable # NULL /\ func
                             THEN Append(listeners, ClosureOf(w))
                             ELSE listeners
     IN IF w = "ValueChanged"
        THEN m_ValueChanged' = added(m_ValueChanged) /\ UNCHANGED m_IdentityChanged
        ELSE m_IdentityChanged' = added(m_IdentityChanged) /\ UNCHANGED m_ValueChanged
  /\ op' = Op("ScopedChangedFuncSet", ClosureOf(w), 0, FALSE)
  /\ ScopedListenerFrame

\* ~InspectableScoped...ChangedFunc(): if(m_Inspectable && m_OnValueChanged)
\*   m_Inspectable->RemoveOn...Changed(&m_OnValueChanged); the closure ends
\* with the object
ScopedChangedFuncDestroy(w) ==
  /\ constructed[w] # "No"
  /\ LET removed(listeners) == IF m_Inspectable[w] # NULL /\ target[ClosureOf(w)]
                               THEN RemoveListener(listeners, ClosureOf(w))
                               ELSE listeners
     IN IF w = "ValueChanged"
        THEN m_ValueChanged' = removed(m_ValueChanged) /\ UNCHANGED m_IdentityChanged
        ELSE m_IdentityChanged' = removed(m_IdentityChanged) /\ UNCHANGED m_ValueChanged
  /\ constructed' = [constructed EXCEPT ![w] = "No"]
  /\ m_Inspectable' = [m_Inspectable EXCEPT ![w] = NULL]
  /\ target' = [target EXCEPT ![ClosureOf(w)] = FALSE]
  /\ op' = Op("ScopedChangedFuncDestroy", ClosureOf(w), 0, FALSE)
  /\ ScopedListenerFrame

\* A call of Set, SetInspectable or SetFunc of a scoped listener.  Each of
\* the three passes the closure itself (m_OnValueChanged, or the parameter
\* func in Set) where RemoveOn...Changed and AddOn...Changed take a
\* TValueChangedFunc*, and std::function does not convert to a pointer: the
\* member cannot be instantiated, so no statement of its body is carried
\* out.  op records the call: t the closure, value the cell argument,
\* andUpdate whether the closure argument is bound.
IllFormed(name, w, inspectable, func) ==
  /\ constructed[w] # "No"
  /\ op' = Op(name, ClosureOf(w), inspectable, func)
  /\ NoUpdate
  /\ ret' = NoBuild
  /\ UNCHANGED <<slotVars, target, scopedVars, m_Identity, m_Transformations,
                 m_IdentityChanged, m_ValueChanged, dirtyOrder, registered>>

\* InspectableScoped...ChangedFunc::Set(inspectable, func)
ScopedChangedFuncAssign(w, inspectable, func) ==
  IllFormed("ChangedFunc::Set", w, inspectable, func)

\* InspectableScoped...ChangedFunc::SetInspectable(inspectable)
SetInspectable(w, inspectable) ==
  IllFormed("ChangedFunc::SetInspectable", w, inspectable, target[ClosureOf(w)])

\* InspectableScoped...ChangedFunc::SetFunc(func)
SetFunc(w, func) ==
  IllFormed("ChangedFunc::SetFunc", w, m_Inspectable[w], func)

\* ------------------------------------------------------------------------
\* The host
\* ------------------------------------------------------------------------

\* the host's slots: a slot is default constructed (no target, m_Priority
\* and m_Enabled not initialised) or constructed with (func, priority,
\* enabled); the slots outside used stay as default(s)
\* and no scoped object exists yet
SlotsConstructed(used, priorities) ==
  /\ m_Function \in {f \in [AllSlots -> TransformFuncs \cup {Unbound}] :
                       \A s \in AllSlots : f[s] \in IF s \in used THEN FuncChoices(s)
                                                     ELSE {Unbound}}
  /\ m_Priority \in {p \in [AllSlots -> Priorities] :
                       \A s \in AllSlots : p[s] \in IF s \in used THEN priorities ELSE {0}}
  /\ m_Enabled \in {e \in [AllSlots -> BOOLEAN] : \A s \in AllSlots : s \notin used => ~e[s]}
  /\ constructed = [w \in Wrappers |-> "No"]
  /\ m_Inspectable = [w \in Wrappers |-> NULL]
  /\ m_UpdateOnDestroy = FALSE
  /\ before = [value |-> 0, fresh |-> FALSE, sorted |-> FALSE, andUpdate |-> FALSE]
  /\ atDisable = [s |-> NULL, value |-> 0, fresh |-> FALSE]

\* a cell as a constructor leaves it: both lists empty, the two T members as
\* given
Constructed(identity, lastValue) ==
  /\ m_Identity = identity
  /\ m_LastValue = lastValue
  /\ m_Transformations = <<>>
  /\ m_IdentityChanged = <<>>
  /\ m_ValueChanged = <<>>
  /\ op = Op("Inspectable", NULL, 0, FALSE)
  /\ ret = Void
  /\ calls = <<>>
  /\ applied = <<>>
  /\ updates = 0
  /\ dirtyOrder = FALSE
  /\ registered = <<>>

\* Inspectable(T identity) : m_Identity(identity), m_LastValue(identity)
Inspectable(identity) == Constructed(identity, identity)

\* Inspectable() {}: m_Identity and m_LastValue are not initialised, and with
\* T = int each holds whatever the storage held
InspectableDefault ==
  \E identity \in Identities, lastValue \in Identities :
    Constructed(identity, lastValue)

\* A host that registers and reconfigures slots and recomputes; it has no
\* listeners.
Init ==
  /\ SlotsConstructed(Slots, Priorities)
  /\ target = [f \in Funcs |-> FALSE]
  /\ Inspectable(10)

Next ==
  \/ \E s \in Slots, priority \in Priorities, enabled \in BOOLEAN :
       \E func \in FuncChoices(s) : Set(s, func, priority, enabled)
  \/ \E t \in Slots, andUpdate \in BOOLEAN : AddTransformation(t, andUpdate)
  \/ \E s \in Slots, priority \in Priorities, andUpdate \in BOOLEAN :
       AddTransformationSet(s, FuncOf(s), priority, TRUE, andUpdate)
  \/ \E t \in Slots, andUpdate \in BOOLEAN : AddTransformationUnique(t, andUpdate)
  \/ \E t \in Slots, andUpdate \in BOOLEAN : RemoveTransformation(t, andUpdate)
  \/ ForceUpdate
  \/ \E andForceUpdate \in BOOLEAN : GetValue(andForceUpdate)

Spec == Init /\ [][Next]_vars

\* A host with listeners and one slot; it constructs its cell with either
\* constructor.
NotifySlots == {1}

InitNotify ==
  /\ SlotsConstructed(NotifySlots, {0})
  /\ target \in [Funcs -> BOOLEAN]
  /\ \/ \E identity \in Identities : Inspectable(identity)
     \/ InspectableDefault

NextNotify ==
  \/ \E s \in NotifySlots, enabled \in BOOLEAN :
       \E func \in FuncChoices(s) : Set(s, func, 0, enabled)
  \/ \E s \in NotifySlots : Enable(s)
  \/ \E s \in NotifySlots : Disable(s)
  \/ \E t \in NotifySlots, andUpdate \in BOOLEAN : AddTransformation(t, andUpdate)
  \/ \E s \in NotifySlots, andUpdate \in BOOLEAN :
       AddTransformationSet(s, FuncOf(s), 0, TRUE, andUpdate)
  \/ \E t \in NotifySlots, andUpdate \in BOOLEAN : AddTransformationUnique(t, andUpdate)
  \/ \E t \in NotifySlots, andUpdate \in BOOLEAN : RemoveTransformation(t, andUpdate)
  \/ \E f \in Funcs : AddOnIdentityChanged(f)
  \/ \E f \in Funcs : AddOnIdentityChangedUnique(f)
  \/ \E f \in Funcs : RemoveOnIdentityChanged(f)
  \/ \E f \in Funcs : AddOnValueChanged(f)
  \/ \E f \in Funcs : AddOnValueChangedUnique(f)
  \/ \E f \in Funcs : RemoveOnValueChanged(f)
  \/ ForceUpdate
  \/ \E andForceUpdate \in BOOLEAN : GetValue(andForceUpdate)
  \/ \E value \in Identities, andUpdate \in BOOLEAN : SetIdentity(value, andUpdate)

SpecNotify == InitNotify /\ [][NextNotify]_vars

\* A host that configures slots and calls them itself.
InitApply ==
  /\ SlotsConstructed(Slots, Priorities)
  /\ target = [f \in Funcs |-> FALSE]
  /\ \E identity \in Identities : Inspectable(identity)

NextApply ==
  \/ \E s \in Slots, priority \in Priorities, enabled \in BOOLEAN :
       \E func \in FuncChoices(s) : Set(s, func, priority, enabled)
  \/ \E s \in Slots, input \in Identities : OperatorCall(s, input)

SpecApply == InitApply /\ [][NextApply]_vars

\* A host that also passes null pointers and closures without a target (at
\* least one of its closures has none).
InitDrop ==
  /\ SlotsConstructed(NotifySlots, {0})
  /\ target \in [Funcs -> BOOLEAN] \ {[f \in Funcs |-> TRUE]}
  /\ \E identity \in Identities : Inspectable(identity)

NextDrop ==
  \/ \E s \in NotifySlots, enabled \in BOOLEAN :
       \E func \in FuncChoices(s) : Set(s, func, 0, enabled)
  \/ \E t \in NotifySlots \cup {NULL}, andUpdate \in BOOLEAN :
       AddTransformation(t, andUpdate)
  \/ \E t \in NotifySlots \cup {NULL}, andUpdate \in BOOLEAN :
       AddTransformationUnique(t, andUpdate)
  \/ \E t \in NotifySlots \cup {NULL}, andUpdate \in BOOLEAN :
       RemoveTransformation(t, andUpdate)
  \/ \E f \in Funcs \cup {NULL} : AddOnIdentityChanged(f)
  \/ \E f \in Funcs \cup {NULL} : AddOnIdentityChangedUnique(f)
  \/ \E f \in Funcs \cup {NULL} : RemoveOnIdentityChanged(f)
  \/ \E f \in Funcs \cup {NULL} : AddOnValueChanged(f)
  \/ \E f \in Funcs \cup {NULL} : AddOnValueChangedUnique(f)
  \/ \E f \in Funcs \cup {NULL} : RemoveOnValueChanged(f)
  \/ ForceUpdate
  \/ \E value \in Identities, andUpdate \in BOOLEAN : SetIdentity(value, andUpdate)

SpecDrop == InitDrop /\ [][NextDrop]_vars

\* A host with a scoped transformation next to one slot of its own, which
\* has its function and is enabled.
InitScoped ==
  /\ SlotsConstructed(NotifySlots, Priorities)
  /\ \A s \in NotifySlots : m_Function[s] = FuncOf(s) /\ m_Enabled[s]
  /\ target = [f \in Funcs |-> FALSE]
  /\ Inspectable(10)

NextScoped ==
  \/ \E s \in NotifySlots, priority \in Priorities : Set(s, FuncOf(s), priority, TRUE)
  \/ \E t \in NotifySlots, andUpdate \in BOOLEAN : AddTransformationUnique(t, andUpdate)
  \/ \E t \in NotifySlots, andUpdate \in BOOLEAN : RemoveTransformation(t, andUpdate)
  \/ ForceUpdate
  \/ \E inspectable \in {NULL, Cell}, updateOnDestroy \in BOOLEAN :
       ScopedTransformation(inspectable, updateOnDestroy)
  \/ \E inspectable \in {NULL, Cell}, priority \in Priorities, enabled \in BOOLEAN,
        andUpdate \in BOOLEAN, updateOnDestroy \in BOOLEAN :
       ScopedTransformationSet(inspectable, FuncOf(WrapperSlot), priority, enabled,
                               andUpdate, updateOnDestroy)
  \/ \E func \in FuncChoices(WrapperSlot), priority \in Priorities, enabled \in BOOLEAN,
        andUpdate \in BOOLEAN : ScopedSet(func, priority, enabled, andUpdate)
  \/ ScopedDestroy

SpecScoped == InitScoped /\ [][NextScoped]_vars

\* A host that arranges its own two slots, then constructs the scoped
\* transformation on the cell and destroys it again, touching neither the
\* identity nor its own slots while the scoped transformation lives.
InitBlock ==
  /\ SlotsConstructed(Slots, Priorities)
  /\ \A s \in Slots : m_Function[s] = FuncOf(s) /\ m_Enabled[s]
  /\ target = [f \in Funcs |-> FALSE]
  /\ Inspectable(10)

NextBlock ==
  \/ /\ constructed["Transformation"] = "No"
     /\ \E s \in Slots, priority \in Priorities : Set(s, FuncOf(s), priority, TRUE)
  \/ /\ constructed["Transformation"] = "No"
     /\ \E t \in Slots, andUpdate \in BOOLEAN : AddTransformationUnique(t, andUpdate)
  \/ ForceUpdate
  \/ \E priority \in Priorities, enabled \in BOOLEAN, andUpdate \in BOOLEAN,
        updateOnDestroy \in BOOLEAN :
       ScopedTransformationSet(Cell, FuncOf(WrapperSlot), priority, enabled,
                               andUpdate, updateOnDestroy)
  \/ ScopedDestroy

SpecBlock == InitBlock /\ [][NextBlock]_vars

\* A host with one closure of its own and the two scoped listeners, on a
\* cell with one registered slot.
InitListener ==
  /\ SlotsConstructed(NotifySlots, {0})
  /\ target = [f \in AllFuncs |-> f = 1]
  /\ Inspectable(10)

NextListener ==
  \/ \E enabled \in BOOLEAN : Set(1, FuncOf(1), 0, enabled)
  \/ AddTransformationUnique(1, FALSE)
  \/ AddOnValueChanged(1)
  \/ RemoveOnValueChanged(1)
  \/ AddOnIdentityChanged(1)
  \/ RemoveOnIdentityChanged(1)
  \/ ForceUpdate
  \/ \E value \in Identities, andUpdate \in BOOLEAN : SetIdentity(value, andUpdate)
  \/ \E w \in ListenerWrappers : ScopedChangedFunc(w)
  \/ \E w \in ListenerWrappers, inspectable \in {Cell, NULL}, func \in BOOLEAN :
       ScopedChangedFuncSet(w, inspectable, func)
  \/ \E w \in ListenerWrappers : ScopedChangedFuncDestroy(w)

SpecListener == InitListener /\ [][NextListener]_vars

\* The same host, which also calls Set, SetInspectable and SetFunc of its
\* scoped listeners.
NextListenerSet ==
  \/ NextListener
  \/ \E w \in ListenerWrappers, inspectable \in {Cell, NULL}, func \in BOOLEAN :
       ScopedChangedFuncAssign(w, inspectable, func)
  \/ \E w \in ListenerWrappers, inspectable \in {Cell, NULL} :
       SetInspectable(w, inspectable)
  \/ \E w \in ListenerWrappers, func \in BOOLEAN : SetFunc(w, func)

SpecListenerSet == InitListener /\ [][NextListenerSet]_vars

\* A host whose slots may hold a closure that raises, with one value-changed
\* listener.
InitThrow ==
  /\ SlotsConstructed(Slots, Priorities)
  /\ \A s \in Slots : m_Function[s] = FuncOf(s) /\ m_Enabled[s]
  /\ target = [f \in Funcs |-> f = 1]
  /\ Inspectable(10)

NextThrow ==
  \/ \E s \in Slots, priority \in Priorities, enabled \in BOOLEAN :
       \E func \in {FuncOf(s), Throws} : Set(s, func, priority, enabled)
  \/ \E t \in Slots, andUpdate \in BOOLEAN : AddTransformationUnique(t, andUpdate)
  \/ \E t \in Slots, andUpdate \in BOOLEAN : RemoveTransformation(t, andUpdate)
  \/ AddOnValueChangedUnique(1)
  \/ ForceUpdate
  \/ \E value \in Identities : SetIdentity(value, FALSE)

SpecThrow == InitThrow /\ [][NextThrow]_vars

\* A host that arranges its two slots and a scoped transformation, all
\* enabled, and from then on only disables and enables them, one at a time,
\* and recomputes.
InitToggle ==
  /\ SlotsConstructed(Slots, Priorities)
  /\ \A s \in Slots : m_Function[s] = FuncOf(s) /\ m_Enabled[s]
  /\ target = [f \in Funcs |-> FALSE]
  /\ Inspectable(10)

NextToggle ==
  \/ /\ atDisable = NoDisable
     /\ \E s \in Slots, priority \in Priorities : Set(s, FuncOf(s), priority, TRUE)
  \/ /\ atDisable = NoDisable
     /\ \E t \in Slots, andUpdate \in BOOLEAN : AddTransformationUnique(t, andUpdate)
  \/ /\ atDisable = NoDisable
     /\ \E priority \in Priorities, andUpdate \in BOOLEAN :
          ScopedTransformationSet(Cell, FuncOf(WrapperSlot), priority, TRUE,
                                  andUpdate, FALSE)
  \/ ForceUpdate
  \/ \E s \in Slots :
       /\ \A t \in Range(m_Transformations) : m_Enabled[t]
       /\ DisableNoted(s)
  \/ \E s \in Slots : Enable(s)
  \/ \E andUpdate \in BOOLEAN :
       /\ \A t \in Range(m_Transformations) : m_Enabled[t]
       /\ ScopedDisable(andUpdate)
  \/ \E andUpdate \in BOOLEAN : ScopedEnable(andUpdate)

SpecToggle == InitToggle /\ [][NextToggle]_vars

\* A host whose two listener closures call back into the cell, on a cell
\* with one slot.
InitReenter ==
  /\ SlotsConstructed(NotifySlots, {0})
  /\ target = [f \in Funcs |-> TRUE]
  /\ Inspectable(10)

NextReenter ==
  \/ \E enabled \in BOOLEAN : Set(1, FuncOf(1), 0, enabled)
  \/ AddTransformationUnique(1, FALSE)
  \/ \E f \in Funcs : AddOnValueChangedUnique(f)
  \/ \E f \in Funcs : RemoveOnValueChanged(f)
  \/ \E f \in Funcs : AddOnIdentityChangedUnique(f)
  \/ \E f \in Funcs : RemoveOnIdentityChanged(f)
  \/ ForceUpdateReentrant
  \/ \E value \in Identities, andUpdate \in BOOLEAN :
       SetIdentityReentrant(value, andUpdate)

SpecReenter == InitReenter /\ [][NextReenter]_vars

\* A host that constructs its cell with either constructor and a scoped
\* value-changed listener on it right away, and keeps the listener for good.
InitWatch ==
  /\ SlotsConstructed(NotifySlots, {0})
  /\ target = [f \in AllFuncs |-> FALSE]
  /\ \/ \E identity \in Identities : Inspectable(identity)
     \/ InspectableDefault

NextWatch ==
  \/ ScopedChangedFuncSet("ValueChanged", Cell, TRUE)
  \/ /\ constructed["ValueChanged"] = "Set"
     /\ \/ \E enabled \in BOOLEAN : \E func \in FuncChoices(1) : Set(1, func, 0, enabled)
        \/ \E andUpdate \in BOOLEAN : AddTransformation(1, andUpdate)
        \/ \E andUpdate \in BOOLEAN : RemoveTransformation(1, andUpdate)
        \/ ForceUpdate
        \/ \E andForceUpdate \in BOOLEAN : GetValue(andForceUpdate)
        \/ \E value \in Identities, andUpdate \in BOOLEAN : SetIdentity(value, andUpdate)

SpecWatch == InitWatch /\ [][NextWatch]_vars

\* A host that assigns to its listener objects while they are registered.
InitAssign ==
  /\ SlotsConstructed(NotifySlots, {0})
  /\ target \in [Funcs -> BOOLEAN]
  /\ \E identity \in Identities : Inspectable(identity)

NextAssign ==
  \/ \E enabled \in BOOLEAN : Set(1, FuncOf(1), 0, enabled)
  \/ AddTransformationUnique(1, FALSE)
  \/ \E f \in Funcs : AddOnIdentityChanged(f)
  \/ \E f \in Funcs : RemoveOnIdentityChanged(f)
  \/ \E f \in Funcs : ContainsOnIdentityChanged(f)
  \/ \E f \in Funcs : AddOnValueChanged(f)
  \/ \E f \in Funcs : RemoveOnValueChanged(f)
  \/ \E f \in Funcs : ContainsOnValueChanged(f)
  \/ \E f \in Funcs, bound \in BOOLEAN : Assign(f, bound)
  \/ ForceUpdate
  \/ \E value \in Identities, andUpdate \in BOOLEAN : SetIdentity(value, andUpdate)

SpecAssign == InitAssign /\ [][NextAssign]_vars

\* A host whose slot may hold a closure that raises, with a value-changed
\* and an identity-changed listener, and which sets the identity with and
\* without a recompute.
InitThrowSet ==
  /\ SlotsConstructed(NotifySlots, {0})
  /\ target = [f \in Funcs |-> TRUE]
  /\ Inspectable(10)

NextThrowSet ==
  \/ \E enabled \in BOOLEAN :
       \E func \in {FuncOf(1), Throws} : Set(1, func, 0, enabled)
  \/ \E andUpdate \in BOOLEAN : AddTransformationUnique(1, andUpdate)
  \/ AddOnValueChangedUnique(1)
  \/ AddOnIdentityChangedUnique(2)
  \/ ForceUpdate
  \/ \E value \in Identities, andUpdate \in BOOLEAN : SetIdentity(value, andUpdate)

SpecThrowSet == InitThrowSet /\ [][NextThrowSet]_vars

\* ------------------------------------------------------------------------
\* Properties
\* ------------------------------------------------------------------------

\* the calls of one kind among cs, in order
CallsOf(kind, cs) == SelectSeq(cs, LAMBDA c : c.kind = kind)

\* what a recompute of the cell as it stands would cache
Fresh == Transformed(m_Transformations, m_Function, m_Enabled, m_Identity)

\* no two entries of the slot list have the same priority
DistinctPriorities ==
  \A i, j \in 1..Len(m_Transformations) :
    i # j => m_Priority[m_Transformations[i]] # m_Priority[m_Transformations[j]]

RECURSIVE AppliedDescending(_, _)
\* the slots of the set S applied to v from the highest priority down, each
\* one if it is enabled and has a function
AppliedDescending(S, v) ==
  IF S = {} THEN v
  ELSE LET s == CHOOSE x \in S : \A y \in S : m_Priority[x] >= m_Priority[y]
       IN AppliedDescending(S \ {s},
                            IF m_Enabled[s] /\ m_Function[s] # Unbound
                            THEN Invoke(m_Function[s], v)
                            ELSE v)

\* the recompute that has just run cached the identity with every enabled
\* slot that has a function applied to it in strictly descending priority
RecomputedDescending ==
  /\ m_LastValue = AppliedDescending(Range(m_Transformations), m_Identity)
  /\ \A i, j \in 1..Len(applied) :
       i < j => m_Priority[applied[i]] > m_Priority[applied[j]]
  /\ Range(applied) = {s \in Range(m_Transformations) :
                         m_Enabled[s] /\ m_Function[s] # Unbound}

\* C1: when the registered slots have pairwise distinct priorities, ForceUpdate
\* and GetValue(true) cache the identity with every enabled slot that has a
\* function applied to it in strictly descending priority, whatever order
\* the slots were registered in.
C1_DescendingPriorityOrder ==
  (op.name \in {"ForceUpdate", "GetValue"} /\ updates = 1 /\ DistinctPriorities)
    => RecomputedDescending

\* The same for every recompute, as long as no registered slot was Set to
\* another priority since the list was last sorted: registration in any
\* order gives the descending order (10, times 2 at 0, plus 2 at 1: 24).
DescendingWhenSorted ==
  (updates = 1 /\ DistinctPriorities /\ ~dirtyOrder) => RecomputedDescending

\* identity 10, slot 1 (times 2) at priority 0 registered before slot 2
\* (plus 2) at priority 1, and a recompute has cached (10 + 2) * 2 = 24
DescendingWhenSorted_Reached ==
  /\ op.name \in {"ForceUpdate", "GetValue"}
  /\ updates = 1
  /\ ~dirtyOrder
  /\ registered = <<1, 2>>
  /\ m_Transformations = <<2, 1>>
  /\ m_Priority[1] = 0 /\ m_Priority[2] = 1
  /\ applied = <<2, 1>>
  /\ m_Identity = 10
  /\ m_LastValue = 24

\* a registration or removal has just run
SlotListChanged ==
  op.name \in {"AddTransformation", "AddTransformationSet", "AddTransformationUnique",
               "RemoveTransformation"}

\* C2: after every AddTransformation / AddTransformationUnique /
\* RemoveTransformation, two registered slots of equal priority stand in the
\* slot list in the order they were registered.
C2_TiesInRegistrationOrder ==
  SlotListChanged =>
    \A i, j \in 1..Len(m_Transformations) :
      LET a == m_Transformations[i]
          b == m_Transformations[j]
      IN (/\ i < j
          /\ a # b
          /\ m_Priority[a] = m_Priority[b]
          /\ Count(a, m_Transformations) = 1
          /\ Count(b, m_Transformations) = 1)
         => Find(registered, a) < Find(registered, b)

\* C3: the slot list is sorted by descending current priority in every
\* reachable state.
C3_SortedByPriority ==
  \A i, j \in 1..Len(m_Transformations) :
    i < j => m_Priority[m_Transformations[i]] >= m_Priority[m_Transformations[j]]

\* C10: AddTransformationUnique of a slot the cell already holds changes
\* nothing: the slot list, the identity and the cached value stay, there is no
\* recompute and no listener call whatever andUpdate is; and a recompute
\* applies a slot that is registered once exactly once.
C10_UniqueAddOfHeldSlot ==
  /\ [][(op'.name = "AddTransformationUnique" /\ op'.t \in Range(m_Transformations)) =>
          /\ m_Transformations' = m_Transformations
          /\ Count(op'.t, m_Transformations') = Count(op'.t, m_Transformations)
          /\ m_Identity' = m_Identity
          /\ m_LastValue' = m_LastValue
          /\ updates' = 0
          /\ calls' = <<>>]_vars
  /\ [](\A s \in Slots :
          (updates = 1 /\ Count(s, m_Transformations) = 1
             /\ m_Enabled[s] /\ m_Function[s] # Unbound)
          => Count(s, applied) = 1)

\* C10: AddTransformationUnique(s, true) has run on a cell that held s once
\* and whose cache was stale, and the cache is still stale.
C10_Witness ==
  /\ op.name = "AddTransformationUnique"
  /\ op.andUpdate
  /\ Count(op.t, m_Transformations) = 1
  /\ m_Enabled[op.t] /\ m_Function[op.t] # Unbound
  /\ updates = 0
  /\ m_LastValue # Fresh

\* an operation that is not asked to update has just run
QuietOp(o) ==
  \/ o.name \in {"Set", "Enable", "Disable",
                 "AddOnIdentityChanged", "AddOnIdentityChangedUnique",
                 "RemoveOnIdentityChanged", "AddOnValueChanged",
                 "AddOnValueChangedUnique", "RemoveOnValueChanged"}
  \/ /\ o.name \in {"AddTransformation", "AddTransformationSet", "AddTransformationUnique",
                    "RemoveTransformation", "SetIdentity", "GetValue"}
     /\ ~o.andUpdate

\* C4: a newly constructed cell caches its identity; the cached value changes
\* only in a recompute; and the registration, removal, SetIdentity and
\* GetValue operations with the update flag false, Set / Enable / Disable of a
\* slot and every listener add or remove leave the cached value as it is, run
\* no recompute and call no value-changed listener.
C4_CacheChangesOnlyInRecompute ==
  /\ [](op.name = "Inspectable" => m_LastValue = m_Identity)
  /\ [][m_LastValue' # m_LastValue => updates' = 1]_vars
  /\ [][QuietOp(op') =>
          /\ m_LastValue' = m_LastValue
          /\ updates' = 0
          /\ CallsOf("value", calls') = <<>>]_vars

\* The steps alone: the cached value changes only in a recompute, and an
\* operation that is not asked to update leaves it, runs no recompute and
\* calls no value-changed listener.
CacheFrame ==
  /\ [][m_LastValue' # m_LastValue => updates' = 1]_vars
  /\ [][QuietOp(op') =>
          /\ m_LastValue' = m_LastValue
          /\ updates' = 0
          /\ CallsOf("value", calls') = <<>>]_vars

\* Enable has run on a registered slot that has a function, a
\* value-changed listener is registered, a recompute would change the cached
\* value, and no listener was called.
CacheFrame_Reached ==
  /\ op.name = "Enable"
  /\ op.t \in Range(m_Transformations)
  /\ m_Function[op.t] # Unbound
  /\ m_ValueChanged # <<>>
  /\ m_LastValue # Fresh
  /\ calls = <<>>

\* C5: a recompute that changes the cached value calls every registered
\* value-changed listener once per registration, in registration order, with
\* the previous and the new cached value, within the operation; and a
\* value-changed listener is called in no other step, so a listener receives
\* nothing until a recompute changes the cached value.
C5_ValueListenersCalledInOrder ==
  /\ [][(updates' = 1 /\ m_LastValue' # m_LastValue) =>
          CallsOf("value", calls') =
            [i \in 1..Len(m_ValueChanged) |->
               [kind |-> "value", f |-> m_ValueChanged[i], last |-> m_LastValue,
                new |-> m_LastValue']]]_vars
  /\ [][CallsOf("value", calls') # <<>> =>
          (updates' = 1 /\ m_LastValue' # m_LastValue)]_vars

\* C5: a recompute has called two different value-changed listeners.
C5_Witness ==
  /\ updates = 1
  /\ Len(m_ValueChanged) = 2
  /\ m_ValueChanged[1] # m_ValueChanged[2]
  /\ Len(CallsOf("value", calls)) = 2
  /\ calls[1].f = m_ValueChanged[1]
  /\ calls[1].last # calls[1].new
  /\ calls[1].new = m_LastValue

\* C6: a recompute that yields the value already cached calls no
\* value-changed listener.
C6_NoCallWhenValueUnchanged ==
  [][(updates' = 1 /\ m_LastValue' = m_LastValue) =>
       CallsOf("value", calls') = <<>>]_vars

\* C6: a recompute has run with a value-changed listener registered and has
\* called none.
C6_Witness ==
  /\ updates = 1
  /\ m_ValueChanged # <<>>
  /\ CallsOf("value", calls) = <<>>

\* C7: SetIdentity with the current identity changes nothing for either value
\* of andUpdate: the identity, the cached value and the lists stay, there is
\* no recompute (a stale cache stays stale) and no listener is called.
C7_SetSameIdentityIsNoOp ==
  [][(op'.name = "SetIdentity" /\ op'.value = m_Identity) =>
       /\ m_Identity' = m_Identity
       /\ m_LastValue' = m_LastValue
       /\ UNCHANGED <<m_Transformations, m_IdentityChanged, m_ValueChanged>>
       /\ updates' = 0
       /\ calls' = <<>>]_vars

\* C7: SetIdentity(identity, true) has run with a listener of each kind
\* registered and a stale cache, and the cache is still stale.
C7_Witness ==
  /\ op.name = "SetIdentity"
  /\ op.value = m_Identity
  /\ op.andUpdate
  /\ m_ValueChanged # <<>>
  /\ m_IdentityChanged # <<>>
  /\ m_LastValue # Fresh
  /\ updates = 0
  /\ calls = <<>>

\* C8: SetIdentity with another value sets the identity and calls every
\* identity-changed listener once per registration, in registration order,
\* with the previous identity and the new one, whether or not it recomputes
\* and whether or not the cached value changes; it recomputes exactly when
\* andUpdate is set, and every value-changed call of that recompute comes
\* before the first identity-changed call.
C8_IdentityListenersCalledLast ==
  [][(op'.name = "SetIdentity" /\ op'.value # m_Identity) =>
       /\ m_Identity' = op'.value
       /\ CallsOf("identity", calls') =
            [i \in 1..Len(m_IdentityChanged) |->
               [kind |-> "identity", f |-> m_IdentityChanged[i], last |-> m_Identity,
                new |-> op'.value]]
       /\ (updates' = 1) = op'.andUpdate
       /\ \A i, j \in 1..Len(calls') :
            (calls'[i].kind = "value" /\ calls'[j].kind = "identity") => i < j]_vars

\* C8: SetIdentity(v, true) has called a value-changed listener and then an
\* identity-changed listener.
C8_Witness ==
  /\ op.name = "SetIdentity"
  /\ op.andUpdate
  /\ Len(calls) = 2
  /\ calls[1].kind = "value"
  /\ calls[2].kind = "identity"
  /\ calls[2].new = m_Identity
  /\ calls[2].last # m_Identity

\* C9: the slot's operator() on a slot without a function raises nothing and
\* leaves the value as it was.
C9_UnboundApplyIsNoOp ==
  (op.name = "OperatorCall" /\ m_Function[op.t] = Unbound) =>
    (~ret.raised /\ ret.value = op.value)

\* C11: RemoveTransformation of a slot the cell does not hold, null included,
\* changes nothing: the slot list, the identity and the cached value stay, no
\* recompute runs whatever andUpdate is, no listener is called and nothing is
\* raised; of a slot the cell holds it erases the first entry for that slot
\* and recomputes exactly when andUpdate is set.
C11_RemoveUnregisteredIsNoOp ==
  [][op'.name = "RemoveTransformation" =>
       IF op'.t = NULL \/ op'.t \notin Range(m_Transformations)
       THEN /\ UNCHANGED <<m_Transformations, m_Identity, m_LastValue,
                           m_IdentityChanged, m_ValueChanged>>
            /\ updates' = 0
            /\ calls' = <<>>
            /\ ~ret'.raised
       ELSE /\ m_Transformations' =
                 Erase(m_Transformations, Find(m_Transformations, op'.t))
            /\ Count(op'.t, m_Transformations') = Count(op'.t, m_Transformations) - 1
            /\ (updates' = 1) = op'.andUpdate]_vars

\* C11: RemoveTransformation(nullptr, true) has run on a cell with a stale
\* cache and a value-changed listener, and the cache is still stale.
C11_Witness ==
  /\ op.name = "RemoveTransformation"
  /\ op.t = NULL
  /\ op.andUpdate
  /\ m_ValueChanged # <<>>
  /\ m_LastValue # Fresh
  /\ updates = 0

\* the calls among cs made to listener f
CallsTo(f, cs) == SelectSeq(cs, LAMBDA c : c.f = f)

\* C12: AddTransformation, AddOnValueChanged and AddOnIdentityChanged add one
\* more registration of a reference the cell already holds; a recompute
\* applies a slot once per registration and a notification calls a listener
\* once per registration; and each Remove call takes away exactly one
\* registration.
C12_DuplicatesCountPerRegistration ==
  /\ [][(op'.name \in {"AddTransformation", "AddTransformationSet"} /\ op'.t # NULL) =>
          Count(op'.t, m_Transformations') = Count(op'.t, m_Transformations) + 1]_vars
  /\ [][(op'.name = "AddOnValueChanged" /\ Targeted(op'.t)) =>
          Count(op'.t, m_ValueChanged') = Count(op'.t, m_ValueChanged) + 1]_vars
  /\ [][(op'.name = "AddOnIdentityChanged" /\ Targeted(op'.t)) =>
          Count(op'.t, m_IdentityChanged') = Count(op'.t, m_IdentityChanged) + 1]_vars
  /\ [][(updates' = 1 /\ ~ret'.raised) =>
          \A s \in Slots :
            Count(s, applied') = IF Applies(s, m_Function', m_Enabled')
                                 THEN Count(s, m_Transformations')
                                 ELSE 0]_vars
  /\ [][(updates' = 1 /\ m_LastValue' # m_LastValue) =>
          \A f \in Funcs :
            Len(CallsTo(f, CallsOf("value", calls'))) = Count(f, m_ValueChanged)]_vars
  /\ [][(op'.name = "SetIdentity" /\ op'.value # m_Identity) =>
          \A f \in Funcs :
            Len(CallsTo(f, CallsOf("identity", calls'))) = Count(f, m_IdentityChanged)]_vars
  /\ [][(op'.name = "RemoveTransformation" /\ op'.t \in Range(m_Transformations)) =>
          Count(op'.t, m_Transformations') = Count(op'.t, m_Transformations) - 1]_vars
  /\ [][(op'.name = "RemoveOnValueChanged" /\ op'.t \in Range(m_ValueChanged)) =>
          Count(op'.t, m_ValueChanged') = Count(op'.t, m_ValueChanged) - 1]_vars
  /\ [][(op'.name = "RemoveOnIdentityChanged" /\ op'.t \in Range(m_IdentityChanged)) =>
          Count(op'.t, m_IdentityChanged') = Count(op'.t, m_IdentityChanged) - 1]_vars

\* C12: a recompute has applied the slot that is registered twice two times
\* (10 * 2 * 2) and called the listener that is registered twice two times.
C12_Witness ==
  /\ updates = 1
  /\ m_Transformations = <<1, 1>>
  /\ applied = <<1, 1>>
  /\ m_LastValue = m_Identity * 4
  /\ Len(m_ValueChanged) = 2
  /\ m_ValueChanged[1] = m_ValueChanged[2]
  /\ Len(CallsTo(m_ValueChanged[1], calls)) = 2

\* C12: RemoveOnIdentityChanged has taken one of two registrations of a
\* listener and the other is still there.
C12_RemovedOne ==
  /\ op.name = "RemoveOnIdentityChanged"
  /\ Count(op.t, m_IdentityChanged) = 1

\* an add operation has just run
SlotAdd(o) ==
  o.name \in {"AddTransformation", "AddTransformationUnique"}

ListenerAdd(o) ==
  o.name \in {"AddOnValueChanged", "AddOnValueChangedUnique",
               "AddOnIdentityChanged", "AddOnIdentityChangedUnique"}

C13_DroppedUnbound ==
  /\ op.name = "AddOnValueChanged"
  /\ op.t # NULL
  /\ ~target[op.t]
  /\ m_ValueChanged # <<>>

\* C14: a scoped transformation constructed without a function on a cell has
\* its slot registered with that cell for as long as it lives, and a function
\* installed later by its Set(func, priority, enabled, true) is applied by
\* the recompute that Set runs.
C14_UnboundScopedIsRegistered ==
  /\ []((constructed["Transformation"] = "Default"
          /\ m_Inspectable["Transformation"] = Cell)
        => ContainsTransformation(WrapperSlot))
  /\ [][(/\ op'.name = "ScopedSet"
         /\ op'.andUpdate
         /\ constructed["Transformation"] = "Default"
         /\ m_Inspectable["Transformation"] = Cell
         /\ Applies(WrapperSlot, m_Function', m_Enabled'))
        => WrapperSlot \in Range(applied')]_vars

\* C15: a scoped transformation constructed with a function on a cell has its
\* slot in that cell's list exactly once for as long as it lives, and its
\* constructor recomputes exactly when andUpdate is set; its destructor takes
\* the slot out of the list and recomputes exactly when update-on-destroy is
\* set; and once it is destroyed the list does not hold the slot and no
\* recompute applies it.
C15_ScopedRegisteredWhileAlive ==
  /\ []((constructed["Transformation"] = "Set"
          /\ m_Inspectable["Transformation"] = Cell)
        => Count(WrapperSlot, m_Transformations) = 1)
  /\ [][(op'.name = "ScopedTransformationSet"
          /\ m_Inspectable'["Transformation"] = Cell)
        => (updates' = 1) = op'.andUpdate]_vars
  /\ [][(/\ op'.name = "ScopedDestroy"
         /\ constructed["Transformation"] = "Set"
         /\ m_Inspectable["Transformation"] = Cell)
        => /\ WrapperSlot \notin Range(m_Transformations')
           /\ (updates' = 1) = m_UpdateOnDestroy]_vars
  /\ [](constructed["Transformation"] = "No"
        => /\ WrapperSlot \notin Range(m_Transformations)
           /\ WrapperSlot \notin Range(applied))

\* C15: a ForceUpdate during the life of the scoped transformation has
\* applied its slot and the host's own.
C15_Witness ==
  /\ constructed["Transformation"] = "Set"
  /\ m_Inspectable["Transformation"] = Cell
  /\ op.name = "ForceUpdate"
  /\ Len(applied) = 2
  /\ WrapperSlot \in Range(applied)

\* C15: the destructor has recomputed without the slot, while the host's own
\* slot is still applied.
C15_Destroyed ==
  /\ op.name = "ScopedDestroy"
  /\ updates = 1
  /\ applied = <<1>>

\* the destructor of a scoped transformation that was constructed on the
\* cell with andUpdate and has update-on-destroy set is running
BlockEnds ==
  /\ op'.name = "ScopedDestroy"
  /\ constructed["Transformation"] = "Set"
  /\ m_Inspectable["Transformation"] = Cell
  /\ before.andUpdate
  /\ m_UpdateOnDestroy

\* C16: constructing a scoped transformation with andUpdate and
\* update-on-destroy and destroying it, with the identity and the other
\* slots left alone in between, leaves the cached value that was there just
\* before the construction.
C16_ScopedBlockRestoresValue ==
  [][BlockEnds => m_LastValue' = before.value]_vars

\* The same for a cell whose cached value was up to date, and whose slot
\* list was in strictly descending priority order, just before the
\* construction.
RestoresFreshSortedValue ==
  [][(BlockEnds /\ before.fresh /\ before.sorted)
       => m_LastValue' = before.value]_vars

RestoresFreshSortedValue_Reached ==
  /\ op.name = "ScopedDestroy"
  /\ op.andUpdate
  /\ Len(m_Transformations) = 2
  /\ m_LastValue # m_Identity

\* the listener list of the cell a scoped listener registers with
ListOf(w) == IF w = "ValueChanged" THEN m_ValueChanged ELSE m_IdentityChanged

\* the scoped listener w is alive, constructed with the cell and a bound
\* closure
Listening(w) ==
  /\ constructed[w] = "Set"
  /\ m_Inspectable[w] = Cell
  /\ target[ClosureOf(w)]

\* C17: a scoped listener constructed with a cell and a bound closure is in
\* the cell's listener list of its kind from the construction on and is
\* called by every notification of that kind while it lives; once it is
\* destroyed the list holds no registration of its closure and the closure is
\* not called again.
C17_ScopedListenerRegisteredWhileAlive ==
  /\ [](\A w \in ListenerWrappers :
          /\ Listening(w) => Count(ClosureOf(w), ListOf(w)) = 1
          /\ constructed[w] = "No" => Count(ClosureOf(w), ListOf(w)) = 0)
  /\ [][(Listening("ValueChanged") /\ updates' = 1 /\ m_LastValue' # m_LastValue) =>
          Len(CallsTo(ClosureOf("ValueChanged"), CallsOf("value", calls'))) = 1]_vars
  /\ [][(Listening("IdentityChanged") /\ op'.name = "SetIdentity"
            /\ m_Identity' # m_Identity) =>
          Len(CallsTo(ClosureOf("IdentityChanged"), CallsOf("identity", calls'))) = 1]_vars
  /\ [][\A w \in ListenerWrappers :
          constructed[w] = "No" => CallsTo(ClosureOf(w), calls') = <<>>]_vars

\* C17: both scoped listeners are alive and a SetIdentity that changed the
\* identity and the value has called each of them.
C17_Witness ==
  /\ Listening("ValueChanged")
  /\ Listening("IdentityChanged")
  /\ op.name = "SetIdentity"
  /\ Len(CallsTo(ClosureOf("ValueChanged"), calls)) = 1
  /\ Len(CallsTo(ClosureOf("IdentityChanged"), calls)) = 1

\* C17: after the scoped listeners were destroyed a SetIdentity has notified
\* the host's own listener only.
C17_Destroyed ==
  /\ \A w \in ListenerWrappers : constructed[w] = "No"
  /\ op.name = "SetIdentity"
  /\ calls # <<>>
  /\ \A i \in 1..Len(calls) : calls[i].f = 1

\* C18: Set(cell, closure), SetInspectable(cell) and SetFunc(closure) of a
\* scoped listener leave the object holding the cell and the closure they
\* were given, with the closure registered exactly once with that cell when
\* both are bound and not registered otherwise.
C18_SetReregisters ==
  [][\A w \in ListenerWrappers :
       (/\ op'.name \in {"ChangedFunc::Set", "ChangedFunc::SetInspectable",
                          "ChangedFunc::SetFunc"}
        /\ op'.t = ClosureOf(w)) =>
         /\ m_Inspectable'[w] = op'.value
         /\ target'[ClosureOf(w)] = op'.andUpdate
         /\ Count(ClosureOf(w), ListOf(w)') =
              IF op'.value # NULL /\ op'.andUpdate THEN 1 ELSE 0]_vars

\* an enabled slot of the list holds a closure that raises
ThrowingSlot ==
  \E i \in 1..Len(m_Transformations) :
    /\ m_Enabled[m_Transformations[i]]
    /\ m_Function[m_Transformations[i]] = Throws

\* C19: when a transformation raises during the walk of ForceUpdate, the
\* exception reaches the caller, the cached value is the one from before the
\* call, and no value-changed listener is called.
C19_ThrowLeavesCache ==
  [][(op'.name = "ForceUpdate" /\ ThrowingSlot) =>
       /\ ret' = Raised
       /\ m_LastValue' = m_LastValue
       /\ CallsOf("value", calls') = <<>>]_vars

\* C19: ForceUpdate has raised in the second slot after the first one was
\* applied to the working copy; the cached value is still the identity,
\* which a completed walk would have changed, and a listener is registered.
C19_Witness ==
  /\ op.name = "ForceUpdate"
  /\ ret = Raised
  /\ Len(applied) = 2
  /\ m_Function[applied[1]] # Throws
  /\ m_Function[applied[2]] = Throws
  /\ m_LastValue = m_Identity
  /\ m_ValueChanged = <<1>>
  /\ calls = <<>>

\* C20: a ForceUpdate that directly follows a ForceUpdate, with the
\* identity, the slot list and the slots as the first one left them, caches
\* the same value and calls no value-changed listener.
C20_RepeatedForceUpdate ==
  [][(op.name = "ForceUpdate" /\ op'.name = "ForceUpdate") =>
       /\ m_LastValue' = m_LastValue
       /\ m_LastValue' = Transformed(m_Transformations, m_Function, m_Enabled,
                                     m_Identity)
       /\ calls' = <<>>]_vars

\* C20: a ForceUpdate over an applied slot, with a value-changed listener
\* registered, has found the cached value already recomputed and called
\* nobody.
C20_Witness ==
  /\ op.name = "ForceUpdate"
  /\ applied # <<>>
  /\ m_LastValue # m_Identity
  /\ m_ValueChanged # <<>>
  /\ calls = <<>>

\* a recompute applies the slots of the list that are enabled and have a
\* function, in the order of the list, and no disabled slot
DisabledSlotsSkipped ==
  [][updates' = 1 =>
       /\ applied' = SelectSeq(m_Transformations',
                               LAMBDA t : m_Enabled'[t] /\ m_Function'[t] # Unbound)
       /\ \A i \in 1..Len(applied') : m_Enabled'[applied'[i]]
       /\ m_LastValue' = Transformed(m_Transformations', m_Function', m_Enabled',
                                     m_Identity')]_vars

\* a recompute has run with the registered slot that was disabled enabled
\* again, like every other registered slot
Reenabled ==
  /\ updates' = 1
  /\ atDisable'.s \in Range(m_Transformations')
  /\ \A t \in Range(m_Transformations') : m_Enabled'[t]

\* C21: a recompute skips a registered slot that is disabled and applies the
\* other enabled slots in order; once the slot is enabled again a recompute
\* caches the value that was cached before the slot was disabled.
C21_DisableEnableRestores ==
  /\ DisabledSlotsSkipped
  /\ [][Reenabled => m_LastValue' = atDisable'.value]_vars

\* C21, for a cached value that was up to date when the slot was disabled.
C21_DisableEnableRestoresFresh ==
  /\ DisabledSlotsSkipped
  /\ [][(Reenabled /\ atDisable'.fresh) => m_LastValue' = atDisable'.value]_vars

\* C21: the scoped transformation was disabled with a recompute that left
\* the two other slots applied, and Enable(true) has brought back the value
\* of the three.
C21_Witness ==
  /\ op.name = "ScopedEnable"
  /\ op.andUpdate
  /\ atDisable.s = WrapperSlot
  /\ atDisable.fresh
  /\ Len(applied) = 3
  /\ m_LastValue = atDisable.value
  /\ m_LastValue # Transformed(m_Transformations, m_Function,
                               [m_Enabled EXCEPT ![WrapperSlot] = FALSE], m_Identity)

\* C21: a slot of the host is disabled and a ForceUpdate has applied the
\* other slots only.
C21_Disabled ==
  /\ op.name = "ForceUpdate"
  /\ atDisable.s \in Slots
  /\ ~m_Enabled[atDisable.s]
  /\ Len(m_Transformations) = 3
  /\ Len(applied) = 2

\* C22: the recompute of the scoped transformation's Set(func, priority,
\* enabled, true), with its slot registered next to another slot and the
\* priorities distinct, applies the slots in descending order of the
\* priorities they have now.
C22_ScopedSetRecomputesInOrder ==
  (/\ op.name = "ScopedSet"
   /\ op.andUpdate
   /\ updates = 1
   /\ WrapperSlot \in Range(m_Transformations)
   /\ Len(m_Transformations) > 1
   /\ DistinctPriorities)
    => RecomputedDescending

\* C23: every value-changed listener finds, when it is called, a cached
\* value equal to the new value it is passed, also when a listener called
\* before it in the round has called ForceUpdate or SetIdentity(v, true).
C23_CachedIsNewDuringRound ==
  \A i \in 1..Len(calls) :
    calls[i].kind = "value" => calls[i].cached = calls[i].new

\* The listener called first by an operation finds the new value cached.
FirstListenerFindsNew ==
  (calls # <<>> /\ calls[1].kind = "value") => calls[1].cached = calls[1].new

FirstListenerFindsNew_Reached ==
  /\ Len(calls) > 1
  /\ calls[1].kind = "value"
  /\ calls[2].kind = "value"
  /\ calls[2].new # calls[1].new

\* the value-changed calls among cs made to the scoped listener
Heard(cs) == CallsTo(ClosureOf("ValueChanged"), CallsOf("value", cs))

\* while the scoped listener lives, a step that changes the cached value
\* calls it once, with the value cached before and the value cached now, and
\* a step that leaves the cached value calls it not at all
ChainSteps ==
  [][constructed["ValueChanged"] = "Set" =>
       Heard(calls') = IF m_LastValue' # m_LastValue
                       THEN <<[kind |-> "value", f |-> ClosureOf("ValueChanged"),
                               last |-> m_LastValue, new |-> m_LastValue']>>
                       ELSE <<>>]_vars

\* C24: the notifications of a value-changed listener registered from the
\* construction of the cell on form a chain: the cell starts with its
\* construction identity cached, so the first notification has it as
\* previous; every change of the cached value is notified once, with the
\* value cached before as previous and the value cached now as new, so each
\* previous is the new of the notification before, previous and new differ,
\* and the latest new is the cached value.
C24_NotificationsChain ==
  /\ [](op.name = "Inspectable" => m_LastValue = m_Identity)
  /\ ChainSteps

\* the scoped listener has heard of a change to the value a slot gives
ChainSteps_Reached ==
  /\ constructed["ValueChanged"] = "Set"
  /\ Len(Heard(calls)) = 1
  /\ applied # <<>>
  /\ calls[1].new = m_LastValue
  /\ calls[1].last # m_Identity

\* C25: for a listener the cell holds, Remove...Changed takes away one
\* registration and Contains...Changed returns true, and for one it does not
\* hold Contains...Changed returns false, whether or not the closure has a
\* target when the call is made; and no operation ends in the call of a
\* closure without a target.
C25_RegisteredListenerCanBeRemoved ==
  /\ [][(op'.name = "RemoveOnValueChanged" /\ op'.t \in Range(m_ValueChanged)) =>
          Count(op'.t, m_ValueChanged') = Count(op'.t, m_ValueChanged) - 1]_vars
  /\ [][(op'.name = "RemoveOnIdentityChanged" /\ op'.t \in Range(m_IdentityChanged)) =>
          Count(op'.t, m_IdentityChanged') = Count(op'.t, m_IdentityChanged) - 1]_vars
  /\ [][op'.name = "ContainsOnValueChanged" =>
          ret' = Returned(Truth(op'.t \in Range(m_ValueChanged)))]_vars
  /\ [][op'.name = "ContainsOnIdentityChanged" =>
          ret' = Returned(Truth(op'.t \in Range(m_IdentityChanged)))]_vars
  /\ [](~ret.raised)

\* The same for the calls made while the closure has a target.
BoundListenerCanBeRemoved ==
  /\ [][(op'.name = "RemoveOnValueChanged" /\ op'.t \in Range(m_ValueChanged)
            /\ target[op'.t]) =>
          Count(op'.t, m_ValueChanged') = Count(op'.t, m_ValueChanged) - 1]_vars
  /\ [][(op'.name = "RemoveOnIdentityChanged" /\ op'.t \in Range(m_IdentityChanged)
            /\ target[op'.t]) =>
          Count(op'.t, m_IdentityChanged') = Count(op'.t, m_IdentityChanged) - 1]_vars
  /\ [][(op'.name = "ContainsOnValueChanged" /\ target[op'.t]) =>
          ret' = Returned(Truth(op'.t \in Range(m_ValueChanged)))]_vars
  /\ [][(op'.name = "ContainsOnIdentityChanged" /\ target[op'.t]) =>
          ret' = Returned(Truth(op'.t \in Range(m_IdentityChanged)))]_vars

BoundListenerCanBeRemoved_Reached ==
  /\ op.name = "ContainsOnValueChanged"
  /\ target[op.t]
  /\ ret = Returned(1)

\* SetIdentity(v, true) runs with v another identity and a transformation of
\* the list raises in its recompute
SetIdentityRaises ==
  /\ op'.name = "SetIdentity"
  /\ op'.andUpdate
  /\ op'.value # m_Identity
  /\ ThrowingSlot

\* C26: a SetIdentity(v, true) whose recompute raises in a transformation
\* leaves the identity and the cached value as they were and calls no
\* value-changed and no identity-changed listener.
C26_FailedSetIdentityLeavesCell ==
  [][SetIdentityRaises =>
       /\ ret' = Raised
       /\ m_Identity' = m_Identity
       /\ m_LastValue' = m_LastValue
       /\ calls' = <<>>]_vars

\* What it does leave: the cached value, with no listener called; the
\* identity is the new one.
FailedSetIdentityKeepsCache ==
  [][SetIdentityRaises =>
       /\ ret' = Raised
       /\ m_Identity' = op'.value
       /\ m_LastValue' = m_LastValue
       /\ calls' = <<>>]_vars

FailedSetIdentityKeepsCache_Reached ==
  /\ op.name = "SetIdentity"
  /\ op.andUpdate
  /\ ret = Raised
  /\ m_Identity = op.value
  /\ m_ValueChanged # <<>>
  /\ m_IdentityChanged # <<>>
  /\ calls = <<>>

====
